---- MODULE Spec2Model ----
(***************************************************************************)
(* Model of morph_tagger/layers.py: the greedy and beam-search decoding   *)
(* loops of DecoderRNN, the subword pooling loop of EncoderRNN.forward    *)
(* and the label truncation of TransformerRNN.predict.                    *)
(*                                                                         *)
(* The learned networks are inputs.  A decoder is a table giving, for the *)
(* token fed to the GRU, the ranking of the vocabulary that softmax/topk  *)
(* produce (the decoders considered depend on the fed token only, so the  *)
(* recurrent hidden state carried by the code is not a variable);         *)
(* probabilities are exact rationals in fifths (the code uses float32     *)
(* tensors).  A score n/5^k is the record [n, k]; a normalized score      *)
(* n/(5^k * d) is the record [n, k, d].  A prediction of predict_beam is  *)
(* a string, kept as a sequence of characters; Python positions count     *)
(* from 0, sequence positions here from 1.                                 *)
(***************************************************************************)
EXTENDS Integers, Sequences, FiniteSets, TLC

VARIABLES op, pc,
          decoder, surface_len, beam_size, max_len,
          predicted_token, predictions, di,
          states, new_states, completed_states, expanded, generations,
          beam_result, outcome,
          sentence_len, word_ids, last_hidden, word_idx, xlmr_embeddings,
          x_len, surfaces, label_ix, passed

decVars == <<decoder, surface_len, beam_size, max_len>>
greedyVars == <<predicted_token, predictions, di>>
beamVars == <<states, new_states, completed_states, expanded, generations, beam_result>>
encVars == <<sentence_len, word_ids, last_hidden, word_idx, xlmr_embeddings>>
trVars == <<x_len, surfaces, label_ix, passed>>
vars == <<op, pc, outcome, decVars, greedyVars, beamVars, encVars, trVars>>

----------------------------------------------------------------------------
(* Bounds *)
MaxSurfaceLen == 3
MaxBeam == 2
MaxLen == 3
MaxWords == 2
MaxSubwords == 3
MaxT == 3
MaxBatch == 2

----------------------------------------------------------------------------
(* Vocabulary: 0 padding, 1 end of sequence, 2 start of sequence, 3+ real *)
PAD == 0
EOS == 1
SOS == 2
Vocab == 0..4

Index2Token ==
  (0 :> <<"p", "a", "d">>) @@ (1 :> <<"e", "o", "s">>) @@ (2 :> <<"s", "o", "s">>)
  @@ (3 :> <<"a">>) @@ (4 :> <<"b">>)

(* The rankings a decoder step can produce: tokens by descending          *)
(* probability, probabilities in fifths.                                   *)
Rank(t1, p1, t2, p2, t3, p3, t4, t5) ==
  << [tok |-> t1, p |-> p1], [tok |-> t2, p |-> p2], [tok |-> t3, p |-> p3],
     [tok |-> t4, p |-> 0], [tok |-> t5, p |-> 0] >>

Dists ==
  { Rank(3, 3, EOS, 2, 4, 0, PAD, SOS),
    Rank(EOS, 3, 3, 2, 4, 0, PAD, SOS),
    Rank(PAD, 3, EOS, 1, 4, 1, 3, SOS),
    Rank(SOS, 2, 4, 2, 3, 1, EOS, PAD),
    Rank(4, 2, 3, 2, EOS, 1, PAD, SOS),
    Rank(3, 2, 4, 2, EOS, 1, PAD, SOS) }

FedTokens == Vocab \ {EOS}

Min(a, b) == IF a < b THEN a ELSE b
Max(a, b) == IF a < b THEN b ELSE a

RECURSIVE Pow5(_)
Pow5(k) == IF k = 0 THEN 1 ELSE 5 * Pow5(k - 1)

----------------------------------------------------------------------------
(* DecoderRNN.predict: greedy decoding *)

TopK(dist, k) == SubSeq(dist, 1, k)

ArgMax(dist) == TopK(dist, 1)[1].tok

IsEosMut(ix) == ix = SOS
IsEos(ix) == ix = EOS

IsRealTokenMut(ix) == ix >= 2
IsRealToken(ix) == ix > 2

PredictStep ==
  /\ pc = "predict"
  /\ di < max_len
  /\ LET tok == ArgMax(decoder[predicted_token]) IN
       /\ predicted_token' = tok
       /\ di' = di + 1
       /\ IF IsEos(tok)
            THEN /\ pc' = "predict_return"
                 /\ UNCHANGED predictions
            ELSE /\ pc' = IF di + 1 < max_len THEN "predict" ELSE "predict_return"
                 /\ predictions' = IF IsRealToken(tok)
                                     THEN Append(predictions, Index2Token[tok])
                                     ELSE predictions
  /\ UNCHANGED <<op, outcome, decVars, beamVars, encVars, trVars>>

PredictReturn ==
  /\ pc = "predict_return"
  /\ pc' = "done"
  /\ UNCHANGED <<op, outcome, decVars, greedyVars, beamVars, encVars, trVars>>

----------------------------------------------------------------------------
(* DecoderRNN.predict_beam *)

Mul(score, p) == [n |-> score.n * p, k |-> score.k + 1]

EosLenMut(prediction) == Len(prediction)
EosLen(prediction) == Len(prediction) + 1

NormalizedScore(score, prediction, isEos) ==
  IF isEos
    THEN [n |-> score.n * 6 * surface_len, k |-> score.k,
          d |-> (5 + EosLen(prediction)) * EosLen(prediction)]
    ELSE [n |-> score.n * 6, k |-> score.k, d |-> 5 + Len(prediction)]

(* x > y for normalized scores *)
GreaterMut(x, y) ==
  LET m == Max(x.k, y.k) IN
    x.n * y.d * Pow5(m - x.k) < y.n * x.d * Pow5(m - y.k)
Greater(x, y) ==
  LET m == Max(x.k, y.k) IN
    x.n * y.d * Pow5(m - x.k) > y.n * x.d * Pow5(m - y.k)

(* sorted(seq, key=attrgetter('normalized_score'), reverse=True): the    *)
(* sort is stable, so element i lands after every element with a greater  *)
(* key and after the earlier elements with an equal key                    *)
SortedPositionMut(seq, i) ==
  1 + Cardinality({j \in 1..Len(seq) :
                     \/ Greater(seq[j].normalized_score, seq[i].normalized_score)
                     \/ /\ j > i
                        /\ ~Greater(seq[i].normalized_score, seq[j].normalized_score)})
SortedPosition(seq, i) ==
  1 + Cardinality({j \in 1..Len(seq) :
                     \/ Greater(seq[j].normalized_score, seq[i].normalized_score)
                     \/ /\ j < i
                        /\ ~Greater(seq[i].normalized_score, seq[j].normalized_score)})

SortedDesc(seq) ==
  [r \in 1..Len(seq) |-> seq[CHOOSE i \in 1..Len(seq) : SortedPosition(seq, i) = r]]

LengthBoundMut(sl) == sl + 3
LengthBound(sl) == sl + 2

DroppedMut(state) == Len(state.prediction) > LengthBound(surface_len)
Dropped(state) == Len(state.prediction) >= LengthBound(surface_len)

NewState(state, c) ==
  LET _score == Mul(state.score, c.p)
      _prediction == IF IsEos(c.tok) THEN state.prediction
                     ELSE state.prediction \o Index2Token[c.tok]
  IN [prediction |-> _prediction, score |-> _score,
      normalized_score |-> NormalizedScore(_score, _prediction, IsEos(c.tok)),
      last_output |-> c.tok]

Candidates(state) ==
  LET top == TopK(decoder[state.last_output], beam_size)
  IN [j \in 1..Len(top) |-> NewState(state, top[j])]

InitialState ==
  [prediction |-> <<>>, score |-> [n |-> 1, k |-> 0],
   normalized_score |-> [n |-> 1, k |-> 0, d |-> 1], last_output |-> SOS]

(* one iteration of the inner loop: pop the first state, drop it when it *)
(* has reached the length bound, otherwise expand it one step             *)
BeamPop ==
  /\ pc = "beam_pop"
  /\ states # <<>>
  /\ LET state == Head(states)
         cands == IF Dropped(state) THEN <<>> ELSE Candidates(state)
     IN /\ completed_states' =
             completed_states \o SelectSeq(cands, LAMBDA s : IsEos(s.last_output))
        /\ new_states' = new_states \o SelectSeq(cands, LAMBDA s : ~IsEos(s.last_output))
        /\ expanded' = (expanded \/ ~Dropped(state))
  /\ states' = Tail(states)
  /\ pc' = IF Tail(states) # <<>> THEN "beam_pop" ELSE "beam_select"
  /\ UNCHANGED <<op, outcome, generations, beam_result, decVars, greedyVars, encVars, trVars>>

Truncate(seq, k) == SubSeq(seq, 1, Min(k, Len(seq)))

(* end of a generation: states = sorted(new_states)[:beam_size], then the *)
(* test of the outer loop                                                  *)
BeamSelect ==
  /\ pc = "beam_select"
  /\ states' = Truncate(SortedDesc(new_states), beam_size)
  /\ new_states' = <<>>
  /\ generations' = IF expanded THEN generations + 1 ELSE generations
  /\ expanded' = FALSE
  /\ pc' = IF new_states = <<>> THEN "beam_return" ELSE "beam_pop"
  /\ UNCHANGED <<op, outcome, completed_states, beam_result,
                 decVars, greedyVars, encVars, trVars>>

NoResult == <<"undefined">>

ReturnOutcomeMut(completed) == "ok"
ReturnOutcome(completed) == IF completed = <<>> THEN "IndexError" ELSE "ok"

BeamReturn ==
  /\ pc = "beam_return"
  /\ outcome' = ReturnOutcome(completed_states)
  /\ beam_result' = IF completed_states = <<>> THEN NoResult
                    ELSE SortedDesc(completed_states)[1].prediction
  /\ pc' = "predict_call"
  /\ UNCHANGED <<op, decVars, greedyVars, states, new_states, completed_states,
                 expanded, generations, encVars, trVars>>

----------------------------------------------------------------------------
(* EncoderRNN.forward: pooling of the subword vectors into one vector per *)
(* word.  word_ids[j] is the word index (from 0) of subword j, or None;   *)
(* last_hidden[j] is the (scalar) vector of subword j.  A mean is kept as *)
(* the record [sum, count].                                                *)
None == -1
Embeds == {1, 2}

RECURSIVE SubwordIndices(_, _, _)
SubwordIndices(ids, w, i) ==
  IF i > Len(ids) THEN <<>>
  ELSE IF ids[i] = w THEN <<i>> \o SubwordIndices(ids, w, i + 1)
       ELSE SubwordIndices(ids, w, i + 1)

RECURSIVE SumAt(_, _)
SumAt(hidden, indices) ==
  IF indices = <<>> THEN 0 ELSE hidden[Head(indices)] + SumAt(hidden, Tail(indices))

Mean(hidden, indices) == [sum |-> SumAt(hidden, indices), count |-> Len(indices)]

PoolWordMut(embs, hidden, indices) == Append(embs, Mean(hidden, indices))
PoolWord(embs, hidden, indices) ==
  IF indices # <<>> THEN Append(embs, Mean(hidden, indices)) ELSE embs

EncoderWord ==
  /\ pc = "enc_loop"
  /\ word_idx < sentence_len
  /\ xlmr_embeddings' =
       PoolWord(xlmr_embeddings, last_hidden, SubwordIndices(word_ids, word_idx, 1))
  /\ word_idx' = word_idx + 1
  /\ pc' = IF word_idx + 1 < sentence_len THEN "enc_loop" ELSE "enc_stack"
  /\ UNCHANGED <<op, outcome, sentence_len, word_ids, last_hidden,
                 decVars, greedyVars, beamVars, trVars>>

(* torch.stack raises on an empty list *)
StackOutcome(embs) == IF embs = <<>> THEN "RuntimeError" ELSE "ok"

EncoderStack ==
  /\ pc = "enc_stack"
  /\ outcome' = StackOutcome(xlmr_embeddings)
  /\ pc' = "done"
  /\ UNCHANGED <<op, encVars, decVars, greedyVars, beamVars, trVars>>

----------------------------------------------------------------------------
(* TransformerRNN.predict: label_ix[w][t] is the arg-max label index of   *)
(* word w at character position t; passed[w] is the argument pair handed  *)
(* to inverse_transformation.                                              *)
Index2Transformation == (0 :> "Keep") @@ (1 :> "Delete")

Word(n) == [i \in 1..n |-> "c"]

SliceMut(seq, n) == seq
Slice(seq, n) == SubSeq(seq, 1, Min(n, Len(seq)))

TransformerPredict ==
  /\ pc = "tr_predict"
  /\ LET preds == [w \in 1..Len(label_ix) |->
                     [t \in 1..Len(label_ix[w]) |-> Index2Transformation[label_ix[w][t]]]]
     IN passed' = [w \in 1..Min(Len(surfaces), Len(preds)) |->
                     [surface |-> surfaces[w],
                      prediction |-> Slice(preds[w], Len(surfaces[w]))]]
  /\ outcome' = "ok"
  /\ pc' = "done"
  /\ UNCHANGED <<op, x_len, surfaces, label_ix, decVars, greedyVars, beamVars, encVars>>

----------------------------------------------------------------------------
DecoderIdle ==
  /\ decoder = [t \in FedTokens |-> Rank(EOS, 3, 3, 2, 4, 0, PAD, SOS)]
  /\ surface_len = 1 /\ beam_size = 1 /\ max_len = 1
  /\ predicted_token = SOS /\ predictions = <<>> /\ di = 0
  /\ states = <<>> /\ new_states = <<>> /\ completed_states = <<>>
  /\ expanded = FALSE /\ generations = 0 /\ beam_result = NoResult

EncoderIdle ==
  /\ sentence_len = 0 /\ word_ids = <<>> /\ last_hidden = <<>> /\ word_idx = 0
  /\ xlmr_embeddings = <<>>

TransformerIdle ==
  /\ x_len = 0 /\ surfaces = <<>> /\ label_ix = <<>> /\ passed = <<>>

(* nothing has been called yet *)
Init ==
  /\ op = "none" /\ pc = "idle" /\ outcome = "none"
  /\ DecoderIdle /\ EncoderIdle /\ TransformerIdle

(* a caller decodes one word of surface_len characters with predict_beam  *)
CallDecode ==
  /\ pc = "idle"
  /\ op' = "decode"
  /\ pc' = "beam_pop"
  /\ decoder' \in [FedTokens -> Dists]
  /\ surface_len' \in 1..MaxSurfaceLen
  /\ beam_size' \in 1..MaxBeam
  /\ states' = <<InitialState>>
  /\ UNCHANGED <<outcome, max_len, greedyVars, new_states, completed_states, expanded,
                 generations, beam_result, encVars, trVars>>

(* and then decodes the same word with the same decoder with predict      *)
CallPredict ==
  /\ pc = "predict_call"
  /\ pc' = "predict"
  /\ max_len' \in 1..MaxLen
  /\ UNCHANGED <<op, outcome, decoder, surface_len, beam_size, greedyVars, beamVars,
                 encVars, trVars>>

(* a caller encodes a sentence of sentence_len words whose contextual     *)
(* model returned m subword vectors and their alignment map               *)
CallEncode ==
  /\ pc = "idle"
  /\ op' = "encode"
  /\ pc' = "enc_loop"
  /\ sentence_len' \in 1..MaxWords
  /\ \E m \in 1..MaxSubwords :
       /\ word_ids' \in [1..m -> {None} \cup (0..(sentence_len' - 1))]
       /\ last_hidden' \in [1..m -> Embeds]
  /\ UNCHANGED <<outcome, word_idx, xlmr_embeddings, decVars, greedyVars, beamVars, trVars>>

(* a caller labels a batch of b words padded to x_len character positions *)
CallTransform ==
  /\ pc = "idle"
  /\ op' = "transform"
  /\ pc' = "tr_predict"
  /\ x_len' \in 1..MaxT
  /\ \E b \in 1..MaxBatch :
       /\ surfaces' \in [1..b -> {Word(n) : n \in 1..MaxSurfaceLen}]
       /\ label_ix' \in [1..b -> [1..x_len' -> DOMAIN Index2Transformation]]
  /\ UNCHANGED <<outcome, passed, decVars, greedyVars, beamVars, encVars>>

Next ==
  \/ CallDecode \/ CallPredict \/ CallEncode \/ CallTransform
  \/ PredictStep \/ PredictReturn \/ BeamPop \/ BeamSelect \/ BeamReturn
  \/ EncoderWord \/ EncoderStack
  \/ TransformerPredict

Spec == Init /\ [][Next]_vars

(* every operation is sequential code that always takes its next step *)
FairSpec == Spec /\ WF_vars(Next)

----------------------------------------------------------------------------
(* Properties *)

RECURSIVE Flatten(_)
Flatten(tokens) ==
  IF tokens = <<>> THEN <<>> ELSE Head(tokens) \o Flatten(Tail(tokens))

DecodeDone == op = "decode" /\ pc = "done"

(* C1: with beam_size = 1 predict_beam returns the token sequence that    *)
(* predict (greedy decoding) returns for the same decoder, whatever the   *)
(* arg-max tokens, surface_len and max_len are.                            *)
C1_BeamOneEqualsGreedy ==
  (DecodeDone /\ beam_size = 1) =>
     (outcome = "ok" /\ beam_result = Flatten(predictions))

(* The decoder that gives 0.6 to 'a' and 0.4 to end-of-sequence at every  *)
(* step, run with beam_size = 2 and surface_len = 3.                       *)
AThenEos == Rank(3, 3, EOS, 2, 4, 0, PAD, SOS)

Scenario ==
  /\ op = "decode" /\ beam_size = 2 /\ surface_len = 3
  /\ decoder[SOS] = AThenEos /\ decoder[3] = AThenEos

(* C2 as stated: in the scenario predict_beam returns "aaa".              *)
C2_ScenarioReturnsAaa ==
  (Scenario /\ pc = "done") => beam_result = <<"a", "a", "a">>

(* C2 amended: in the scenario predict_beam returns the empty sequence;   *)
(* the end-of-sequence candidate of the first expansion has normalized    *)
(* score 0.4 / (6/6) * (3/1) = 6/5, above every other completed state.    *)
C2_ScenarioReturnsEmpty ==
  (Scenario /\ pc = "done") =>
     /\ outcome = "ok"
     /\ beam_result = <<>>
     /\ \A i \in 1..Len(completed_states) :
          LET c == completed_states[i] IN
            /\ c.prediction = <<>> => 5 * c.normalized_score.n
                                        = 6 * Pow5(c.normalized_score.k) * c.normalized_score.d
            /\ c.prediction # <<>> => 5 * c.normalized_score.n
                                        < 6 * Pow5(c.normalized_score.k) * c.normalized_score.d

C2_Witness ==
  /\ Scenario /\ pc = "done"
  /\ \E i \in 1..Len(completed_states) : completed_states[i].prediction = <<"a", "a", "a">>

(* C3: every state in the completed set has a sequence of length at most  *)
(* surface_len + 2, and a popped state whose sequence length has reached  *)
(* surface_len + 2 adds nothing to the completed set or to the pool.      *)
C3_CompletedWithinBound ==
  [][ /\ \A i \in 1..Len(completed_states') :
           Len(completed_states'[i].prediction) <= surface_len + 2
      /\ (pc = "beam_pop" /\ states # <<>>
            /\ Len(Head(states).prediction) >= surface_len + 2)
           => (completed_states' = completed_states /\ new_states' = new_states)
    ]_vars

C3_Witness ==
  /\ op = "decode" /\ pc = "beam_select"
  /\ ~expanded
  /\ completed_states # <<>>
  /\ generations = surface_len + 1

(* C4 as stated: when the loop ends with an empty completed set the       *)
(* caller receives an EmptyBeamError.                                      *)
C4_EmptyBeamError ==
  (DecodeDone /\ completed_states = <<>>) => outcome = "EmptyBeamError"

(* C4 amended: when the loop ends with an empty completed set the call    *)
(* fails with the IndexError of indexing the empty sorted list, and no    *)
(* sequence is returned.                                                   *)
C4_EmptyBeamFails ==
  (DecodeDone /\ completed_states = <<>>) =>
     (outcome = "IndexError" /\ beam_result = NoResult)

C4_Witness == DecodeDone /\ completed_states = <<>> /\ generations > 1

(* the arg-max tokens of greedy decoding, up to the first end-of-sequence *)
(* or n steps                                                              *)
RECURSIVE GreedyTrace(_, _)
GreedyTrace(last, n) ==
  IF n = 0 THEN <<>>
  ELSE LET t == decoder[last][1].tok IN
         IF t = EOS THEN <<t>> ELSE <<t>> \o GreedyTrace(t, n - 1)

RECURSIVE RealTokens(_)
RealTokens(trace) ==
  IF trace = <<>> THEN <<>>
  ELSE IF Head(trace) \in {PAD, EOS, SOS} THEN RealTokens(Tail(trace))
       ELSE <<Index2Token[Head(trace)]>> \o RealTokens(Tail(trace))

HasSubword(w) == \E j \in 1..Len(word_ids) : word_ids[j] = w

(* C6: when some word of the sentence has no aligned subword, encoding    *)
(* the sentence fails with an error.                                       *)
C6_MissingWordFails ==
  (op = "encode" /\ pc = "done" /\ \E w \in 0..(sentence_len - 1) : ~HasSubword(w))
     => outcome # "ok"

(* C7: forward returns exactly len(sentence) vectors and the vector at    *)
(* position i is the mean of the vectors of the subwords aligned to       *)
(* word i, for every alignment map.                                        *)
C7_OneVectorPerWord ==
  (op = "encode" /\ pc = "done" /\ outcome = "ok") =>
     /\ Len(xlmr_embeddings) = sentence_len
     /\ \A w \in 0..(sentence_len - 1) :
          LET aligned == {j \in 1..Len(word_ids) : word_ids[j] = w} IN
            /\ xlmr_embeddings[w + 1].count = Cardinality(aligned)
            /\ xlmr_embeddings[w + 1].sum
                 = Cardinality({j \in aligned : last_hidden[j] = 1})
                   + 2 * Cardinality({j \in aligned : last_hidden[j] = 2})

TransformDone == op = "transform" /\ pc = "done"

(* C8 as stated: the labels passed to inverse_transformation for a word   *)
(* are exactly len(surface) labels, those of positions 0..len(surface)-1. *)
C8_ExactlySurfaceLen ==
  TransformDone =>
     \A w \in 1..Len(surfaces) :
        /\ Len(passed[w].prediction) = Len(surfaces[w])
        /\ \A t \in 1..Len(surfaces[w]) :
             passed[w].prediction[t] = Index2Transformation[label_ix[w][t]]

(* C8 amended: the labels passed for a word are the arg-max labels of the *)
(* first min(len(surface), T) positions, in order; labels at positions    *)
(* >= len(surface) are never passed.                                       *)
C8_FirstMinLabels ==
  TransformDone =>
     /\ Len(passed) = Len(surfaces)
     /\ \A w \in 1..Len(surfaces) :
          /\ passed[w].surface = surfaces[w]
          /\ Len(passed[w].prediction) =
               (IF Len(surfaces[w]) < x_len THEN Len(surfaces[w]) ELSE x_len)
          /\ \A t \in 1..Len(passed[w].prediction) :
               passed[w].prediction[t] = Index2Transformation[label_ix[w][t]]

C8_Witness ==
  /\ TransformDone
  /\ \E w \in 1..Len(surfaces) : Len(surfaces[w]) < x_len /\ label_ix[w][x_len] = 1
  /\ \E w \in 1..Len(surfaces) : Len(surfaces[w]) > x_len

(* value of a normalized score r equals num / (5^k * den) *)
NormIs(r, num, k, den) ==
  LET m == IF r.k < k THEN k ELSE r.k IN
    r.n * den * Pow5(m - r.k) = num * r.d * Pow5(m - k)

Expanding ==
  /\ pc = "beam_pop" /\ states # <<>>
  /\ Len(Head(states).prediction) < surface_len + 2

(* the candidate records a pop appended to seq *)
Added(old, new) == {new[i] : i \in (Len(old) + 1)..Len(new)}

(* the candidate of rank j of the expanded state, scored with             *)
(* end-of-sequence length eosLen(L) for a state of sequence length L      *)
ScoredAs(j, eosLenOf(_)) ==
  LET st == Head(states)
      c == decoder[st.last_output][j]
      L == Len(st.prediction)
  IN IF c.tok = EOS
       THEN \E s \in Added(completed_states, completed_states') :
              /\ s.prediction = st.prediction
              /\ s.score.n = st.score.n * c.p /\ s.score.k = st.score.k + 1
              /\ NormIs(s.normalized_score, st.score.n * c.p * 6 * surface_len,
                        st.score.k + 1, (5 + eosLenOf(L)) * eosLenOf(L))
       ELSE \E s \in Added(new_states, new_states') :
              /\ s.prediction = st.prediction \o Index2Token[c.tok]
              /\ s.last_output = c.tok
              /\ s.score.n = st.score.n * c.p /\ s.score.k = st.score.k + 1
              /\ NormIs(s.normalized_score, st.score.n * c.p * 6,
                        st.score.k + 1, 5 + Len(s.prediction))

SameLen(L) == L
PlusOne(L) == L + 1

(* C9 as stated: an end-of-sequence candidate is normalized with the      *)
(* existing sequence length L of the expanded state.                       *)
C9_EosUsesExistingLen ==
  [][ Expanding => \A j \in 1..beam_size : ScoredAs(j, SameLen) ]_vars

(* C9 amended: new_cumulative = state.score * p; a candidate that is not  *)
(* end-of-sequence has normalized_score = new_cumulative / ((5 + L_new)/6)*)
(* with L_new the length after appending the token; an end-of-sequence    *)
(* candidate keeps the sequence and has normalized_score =                *)
(* new_cumulative / ((5 + (L+1)) / 6) * (surface_len / (L+1)).            *)
C9_EosUsesLenPlusOne ==
  [][ Expanding => \A j \in 1..beam_size : ScoredAs(j, PlusOne) ]_vars

C9_Witness ==
  /\ op = "decode" /\ pc = "beam_pop"
  /\ \E i \in 1..Len(completed_states) : Len(completed_states[i].prediction) >= 1
  /\ new_states # <<>>

(* C10: predict_beam terminates, after at most surface_len + 2            *)
(* generations in which a state is expanded.                               *)
C10_Terminates ==
  /\ [](generations <= surface_len + 2)
  /\ <>(pc = "done")

C10_Witness ==
  DecodeDone /\ generations = surface_len + 2

(* value of normalized score x is strictly above that of y *)
Above(x, y) ==
  LET m == IF x.k < y.k THEN y.k ELSE x.k IN
    x.n * y.d * Pow5(m - x.k) > y.n * x.d * Pow5(m - y.k)

Kept(s) == \E r \in 1..Len(states') : states'[r] = s

(* the completed state at index i is the first one of highest score *)
FirstBest(i) ==
  /\ \A j \in 1..Len(completed_states) :
       ~Above(completed_states[j].normalized_score, completed_states[i].normalized_score)
  /\ \A j \in 1..(i - 1) :
       Above(completed_states[i].normalized_score, completed_states[j].normalized_score)

(* C11: after every generation the active beam holds at most beam_size    *)
(* states taken from the candidate pool, sorted by normalized score       *)
(* descending; no discarded candidate has a strictly higher normalized    *)
(* score than a kept one; candidates of equal normalized score keep their *)
(* first-seen order, and the result is the first-seen completed state of  *)
(* highest normalized score.                                               *)
C11_BeamIsStableTop ==
  [][ /\ pc = "beam_select" =>
           /\ Len(states') = (IF Len(new_states) < beam_size
                                THEN Len(new_states) ELSE beam_size)
           /\ \A r \in 1..Len(states') :
                \E i \in 1..Len(new_states) : states'[r] = new_states[i]
           /\ \A r1, r2 \in 1..Len(states') :
                r1 < r2 => /\ states'[r1] # states'[r2]
                           /\ ~Above(states'[r2].normalized_score,
                                     states'[r1].normalized_score)
           /\ \A i \in 1..Len(new_states) : \A r \in 1..Len(states') :
                ~Kept(new_states[i]) =>
                   ~Above(new_states[i].normalized_score, states'[r].normalized_score)
           /\ \A i, j \in 1..Len(new_states) :
                (/\ i < j
                 /\ ~Above(new_states[i].normalized_score, new_states[j].normalized_score)
                 /\ ~Above(new_states[j].normalized_score, new_states[i].normalized_score)
                 /\ Kept(new_states[j]))
                  => \E r1, r2 \in 1..Len(states') :
                       /\ r1 < r2
                       /\ states'[r1] = new_states[i]
                       /\ states'[r2] = new_states[j]
      /\ (pc = "beam_return" /\ completed_states # <<>>) =>
           \E i \in 1..Len(completed_states) :
              FirstBest(i) /\ beam_result' = completed_states[i].prediction
    ]_vars

(* a generation ends with more candidates than the beam holds, two of     *)
(* them of equal normalized score                                          *)
C11_Witness ==
  /\ op = "decode" /\ pc = "beam_select"
  /\ Len(new_states) > beam_size
  /\ \E i, j \in 1..Len(new_states) :
       /\ i < j
       /\ ~Above(new_states[i].normalized_score, new_states[j].normalized_score)
       /\ ~Above(new_states[j].normalized_score, new_states[i].normalized_score)
====
